---- MODULE Spec2Model ----
(***************************************************************************)
(* The external filter / trigger scripts of openzeppelin-monitor:          *)
(*   examples/config/filters/evm_filter_block_number.py       ("ex_evm")   *)
(*   examples/config/filters/stellar_filter_block_number.py   ("ex_stellar")*)
(*   tests/integration/fixtures/filters/evm_filter_block_number.py         *)
(*                                                            ("fx_evm")   *)
(*   tests/integration/fixtures/filters/stellar_filter_block_number.py     *)
(*                                                            ("fx_stellar")*)
(*   tests/integration/fixtures/filters/evm_filter_by_arguments.py         *)
(*                                                            ("fx_args")  *)
(*   examples/config/triggers/scripts/custom_notification.py  ("trigger")  *)
(*                                                                         *)
(* One behaviour is one process: a script is started on one content of its *)
(* standard input and runs main() phase by phase until the process ends.   *)
(* Standard input is modelled after decoding: either it is empty, or it is *)
(* not decodable text, or it is not JSON, or it is the JSON document that  *)
(* json.loads returns, described by the shape of the values the scripts    *)
(* look at.  Strings that reach int() are sequences of characters.         *)
(*                                                                         *)
(* The text of an exception, str(e), is a fixed text per kind of fault.    *)
(* Numbers stay within the range the interpreter converts to text: the     *)
(* limit some interpreters put on the digits of an integer in str() and    *)
(* int() (4300 digits) is not modelled.                                    *)
(***************************************************************************)
EXTENDS Integers, Sequences, FiniteSets, TLC

VARIABLES script, input, pc, stdout, stderr, result, block, raised, parsed,
          exitStatus

vars == <<script, input, pc, stdout, stderr, result, block, raised, parsed,
          exitStatus>>

(***************************************************************************)
(* Bounds of the model.                                                    *)
(***************************************************************************)
\* longest string given as blockNumber / sequence
MaxStrLen == 4
\* JSON integers given as blockNumber / sequence range over -MaxInt..MaxInt
MaxInt == 3
\* longest args list
MaxArgs == 2

(***************************************************************************)
(* Script names.                                                           *)
(***************************************************************************)
EvmFilters == {"ex_evm", "fx_evm"}
StellarFilters == {"ex_stellar", "fx_stellar"}
BlockFilters == EvmFilters \cup StellarFilters
FilterScripts == BlockFilters \cup {"fx_args"}
Scripts == FilterScripts \cup {"trigger"}

(***************************************************************************)
(* JSON leaf values: the value found under blockNumber / sequence.         *)
(*   k = "absent"  the key is not in the record (dict.get gives None)      *)
(*   k = "null"    JSON null                                               *)
(*   k = "str"     JSON string, s its characters                           *)
(*   k = "int"     JSON integer n                                          *)
(*   k = "bool"    JSON true (n = 1) or false (n = 0)                      *)
(*   k = "float"   JSON real number n/2                                    *)
(*   k = "nan"     the NaN literal json.loads accepts                      *)
(*   k = "array"   JSON array of n elements                                *)
(***************************************************************************)
\* Strings of at most n characters, with or without a leading minus sign.
Chars == {"0", "1", "a", "x"}
Strs(n) ==
    UNION {[1..k -> Chars] : k \in 0..n}
    \cup UNION {{<<"-">> \o s : s \in [1..k -> Chars]} : k \in 0..(n - 1)}

Leaf(k, s, n) == [k |-> k, s |-> s, n |-> n]
Absent == Leaf("absent", <<>>, 0)
Null == Leaf("null", <<>>, 0)
NaN == Leaf("nan", <<>>, 0)
StrLeaf(s) == Leaf("str", s, 0)
IntLeaf(n) == Leaf("int", <<>>, n)

AllLeafs ==
    {Absent, Null, NaN}
    \cup {StrLeaf(s) : s \in Strs(MaxStrLen)}
    \cup {IntLeaf(n) : n \in (0 - MaxInt)..MaxInt}
    \cup {Leaf("bool", <<>>, n) : n \in {0, 1}}
    \cup {Leaf("float", <<>>, n) : n \in 0..(2 * MaxInt + 1)}
    \cup {Leaf("array", <<>>, n) : n \in {0, 1}}

FewLeafs ==
    {Absent, IntLeaf(0), IntLeaf(1), IntLeaf(2),
     StrLeaf(<<"1">>), StrLeaf(<<"1", "0">>)}

(***************************************************************************)
(* The value under a chain-family key ("EVM" / "Stellar").                 *)
(*   kind    "object" or "other" (a value that is no JSON object)          *)
(*   hasRec  the nested record key (transaction / ledger) is there         *)
(*   recKind "object" or "other"                                           *)
(*   field   the leaf under blockNumber / sequence                         *)
(***************************************************************************)
Chain(kind, hasRec, recKind, field) ==
    [kind |-> kind, hasRec |-> hasRec, recKind |-> recKind, field |-> field]
NoChain == Chain("object", FALSE, "object", Absent)
ChainVals(leafs) ==
    {Chain("other", FALSE, "object", Absent),
     Chain("object", FALSE, "object", Absent),
     Chain("object", TRUE, "other", Absent)}
    \cup {Chain("object", TRUE, "object", l) : l \in leafs}

(***************************************************************************)
(* monitor_match.                                                          *)
(*   kind "object"    a JSON object                                        *)
(*        "container" a JSON string or array: `in` works on it, a string   *)
(*                    subscript does not                                   *)
(*        "scalar"    number, boolean or null: `in` does not work on it    *)
(*   hasEVM / hasStellar   what `"EVM" in monitor_match` gives             *)
(***************************************************************************)
MM(kind, hasEVM, evm, hasStellar, stellar) ==
    [kind |-> kind, hasEVM |-> hasEVM, evm |-> evm,
     hasStellar |-> hasStellar, stellar |-> stellar]
NoMM == MM("object", FALSE, NoChain, FALSE, NoChain)

\* The shapes of monitor_match, with a few leaves.
StructMMs ==
    {MM("scalar", FALSE, NoChain, FALSE, NoChain)}
    \cup {MM("container", e, NoChain, s, NoChain) : e \in BOOLEAN, s \in BOOLEAN}
    \cup {MM("object", FALSE, NoChain, FALSE, NoChain)}
    \cup {MM("object", TRUE, e, FALSE, NoChain) : e \in ChainVals(FewLeafs)}
    \cup {MM("object", FALSE, NoChain, TRUE, s) : s \in ChainVals(FewLeafs)}
    \cup {MM("object", TRUE, e, TRUE, s) :
            e \in ChainVals({StrLeaf(<<"1", "0">>)}),
            s \in ChainVals({IntLeaf(2)})}

\* monitor_match values that differ in what args can do nothing about.
ArgMMs ==
    {MM("container", TRUE, NoChain, TRUE, NoChain),
     MM("object", FALSE, NoChain, FALSE, NoChain),
     MM("object", TRUE, Chain("object", TRUE, "object", StrLeaf(<<"1", "0">>)),
        FALSE, NoChain),
     MM("object", FALSE, NoChain,
        TRUE, Chain("object", TRUE, "object", IntLeaf(2)))}

\* Well-formed monitor_match values of one chain family, with every leaf.
EvmLeafMMs ==
    {MM("object", TRUE, Chain("object", TRUE, "object", l), FALSE, NoChain) :
        l \in AllLeafs}
StellarLeafMMs ==
    {MM("object", FALSE, NoChain, TRUE, Chain("object", TRUE, "object", l)) :
        l \in AllLeafs}

(***************************************************************************)
(* args: a JSON array of strings (k = "array") or JSON null (k = "null").  *)
(***************************************************************************)
ArgTokens == {"--verbose", "-v"}
Args(k, items) == [k |-> k, items |-> items]
ArgsVals ==
    {Args("null", <<>>)}
    \cup {Args("array", s) : s \in UNION {[1..n -> ArgTokens] : n \in 0..MaxArgs}}

(***************************************************************************)
(* The contents of standard input.                                         *)
(*   raw "empty"        no bytes                                           *)
(*       "undecodable"  bytes that are no text in the stream's encoding    *)
(*       "malformed"    text that is no JSON document                      *)
(*       "json"         a JSON document                                    *)
(*   top "object" / "other"   the document is a JSON object or not         *)
(***************************************************************************)
Doc(raw, top, hasMM, mm, hasArgs, args) ==
    [raw |-> raw, top |-> top, hasMM |-> hasMM, mm |-> mm,
     hasArgs |-> hasArgs, args |-> args]
NoArgs == Args("array", <<>>)
\* Every shape of input, with a few leaves: given to every script.
Inputs ==
    {Doc(r, "other", FALSE, NoMM, FALSE, NoArgs) :
        r \in {"empty", "undecodable", "malformed", "json"}}
    \cup {Doc("json", "object", FALSE, NoMM, FALSE, NoArgs)}
    \cup {Doc("json", "object", FALSE, NoMM, TRUE, a) : a \in ArgsVals}
    \cup {Doc("json", "object", TRUE, m, FALSE, NoArgs) : m \in StructMMs}
    \cup {Doc("json", "object", TRUE, m, TRUE, a) :
            m \in StructMMs, a \in {NoArgs, Args("array", <<"--verbose">>)}}
    \cup {Doc("json", "object", TRUE, m, TRUE, a) : m \in ArgMMs, a \in ArgsVals}

\* A script that reads a numeric field is also given every leaf in it.
InputsOf(s) ==
    Inputs
    \cup (IF s \in EvmFilters
          THEN {Doc("json", "object", TRUE, m, TRUE, NoArgs) : m \in EvmLeafMMs}
          ELSE {})
    \cup (IF s \in StellarFilters
          THEN {Doc("json", "object", TRUE, m, TRUE, NoArgs) : m \in StellarLeafMMs}
          ELSE {})

(***************************************************************************)
(* Python values and built-ins the scripts use.                            *)
(***************************************************************************)
\* An exception object: its class and str(e).
Exc(cls, msg) == [cls |-> cls, msg |-> msg]
NoExc == Exc("none", "")

\* The classes an exception is an instance of.
Bases(cls) ==
    CASE cls = "JSONDecodeError" -> {"JSONDecodeError", "ValueError", "Exception"}
      [] cls = "UnicodeDecodeError" -> {"UnicodeDecodeError", "ValueError", "Exception"}
      [] cls = "none" -> {}
      [] OTHER -> {cls, "Exception"}
IsInstance(e, cls) == cls \in Bases(e.cls)

\* block_number / ledger_number: None or an integer.
None == [some |-> FALSE, n |-> 0]
Some(n) == [some |-> TRUE, n |-> n]

\* The result of evaluating an expression: a value or a raised exception.
Val(v) == [exc |-> NoExc, v |-> v]
Raises(e) == [exc |-> e, v |-> 0]

\* bool(x) of a leaf, as `if hex_block:` / `if ledger:` test it.
Truthy(l) ==
    CASE l.k \in {"absent", "null"} -> FALSE
      [] l.k = "str" -> Len(l.s) > 0
      [] l.k = "nan" -> TRUE
      [] OTHER -> l.n # 0

\* The value of a digit character; 99 for a character that is no digit.
DigitValue(c) ==
    CASE c = "0" -> 0 [] c = "1" -> 1 [] c = "2" -> 2 [] c = "3" -> 3
      [] c = "4" -> 4 [] c = "5" -> 5 [] c = "6" -> 6 [] c = "7" -> 7
      [] c = "8" -> 8 [] c = "9" -> 9 [] c = "a" -> 10 [] c = "b" -> 11
      [] c = "c" -> 12 [] c = "d" -> 13 [] c = "e" -> 14 [] c = "f" -> 15
      [] OTHER -> 99

\* The number the digits s[from..to] denote in the base.
RECURSIVE Magnitude(_, _, _, _)
Magnitude(s, from, to, base) ==
    IF to < from THEN 0
    ELSE Magnitude(s, from, to - 1, base) * base + DigitValue(s[to])

\* int(s, base) of a string: optional sign, for base 16 an optional 0x
\* prefix, then at least one digit of the base; anything else ValueError.
\* (Surrounding whitespace and underscores between digits, which int() also
\* accepts, are not among the characters of the model.)
ParseInt(s, base) ==
    LET signed == Len(s) > 0 /\ s[1] \in {"-", "+"}
        sign == IF signed THEN 1 ELSE 0
        prefixed == /\ base = 16
                    /\ Len(s) >= sign + 2
                    /\ s[sign + 1] = "0"
                    /\ s[sign + 2] \in {"x", "X"}
        start == sign + (IF prefixed THEN 2 ELSE 0)
        ok == /\ Len(s) > start
              /\ \A i \in (start + 1)..Len(s) : DigitValue(s[i]) < base
        mag == Magnitude(s, start + 1, Len(s), base)
    IN  IF ok
        THEN Val(IF signed /\ s[1] = "-" THEN 0 - mag ELSE mag)
        ELSE Raises(Exc("ValueError", "invalid literal for int()"))

\* int(s, 16) and int(s) of every string of the model, tabulated.
ParsedBase16 == [s \in Strs(MaxStrLen) |-> ParseInt(s, 16)]
ParsedBase10 == [s \in Strs(MaxStrLen) |-> ParseInt(s, 10)]

\* int(hex_block, 16): an explicit base takes a string only.
IntBase16(l) ==
    IF l.k = "str" THEN ParsedBase16[l.s]
    ELSE Raises(Exc("TypeError", "int() can't convert non-string with explicit base"))

\* int(ledger): strings are parsed in base 10, numbers are truncated.
IntOf(l) ==
    CASE l.k = "str" -> ParsedBase10[l.s]
      [] l.k \in {"int", "bool"} -> Val(l.n)
      [] l.k = "float" -> Val(l.n \div 2)
      [] l.k = "nan" -> Raises(Exc("ValueError", "cannot convert float NaN to integer"))
      [] OTHER -> Raises(Exc("TypeError", "int() argument must be a string or a real number"))

\* main's return value: a bool, None, or not returned yet.
PyBool(b) == [t |-> "bool", b |-> b]
PyNone == [t |-> "none", b |-> FALSE]
Unset == [t |-> "unset", b |-> FALSE]

\* str(result).lower() of main's return value.
PyStr(v) == IF v.t = "bool" THEN (IF v.b THEN "True" ELSE "False") ELSE "None"
Lower(s) ==
    CASE s = "True" -> "true" [] s = "False" -> "false" [] s = "None" -> "none"
      [] OTHER -> s

\* x in args
In(x, a) ==
    IF a.k = "array"
    THEN Val(\E i \in 1..Len(a.items) : a.items[i] = x)
    ELSE Raises(Exc("TypeError", "argument of type 'NoneType' is not iterable"))

\* repr of args, as the f-string of the trigger prints it
RECURSIVE Joined(_, _)
Joined(items, i) ==
    IF i > Len(items) THEN ""
    ELSE IF i = Len(items) THEN "'" \o items[i] \o "'"
    ELSE "'" \o items[i] \o "', " \o Joined(items, i + 1)
Repr(a) == IF a.k = "array" THEN "[" \o Joined(a.items, 1) \o "]" ELSE "None"

\* json.loads(input_data)
JsonLoads(inp) ==
    IF inp.raw = "json" THEN Val(0)
    ELSE Raises(Exc("JSONDecodeError", "Expecting value: line 1 column 1 (char 0)"))

\* data[key]
DataItem(inp, key) ==
    IF inp.top # "object"
    THEN Raises(Exc("TypeError", "indices must be integers"))
    ELSE IF (key = "monitor_match" /\ inp.hasMM) \/ (key = "args" /\ inp.hasArgs)
    THEN Val(0)
    ELSE Raises(Exc("KeyError", "'" \o key \o "'"))

\* key in monitor_match
InMM(m, has) ==
    IF m.kind = "scalar"
    THEN Raises(Exc("TypeError", "argument is not iterable"))
    ELSE Val(has)

\* monitor_match[family][record].get(field)
NestedGet(m, c, record) ==
    IF m.kind # "object" \/ c.kind # "object"
    THEN Raises(Exc("TypeError", "indices must be integers"))
    ELSE IF ~c.hasRec THEN Raises(Exc("KeyError", "'" \o record \o "'"))
    ELSE IF c.recKind # "object"
    THEN Raises(Exc("AttributeError", "object has no attribute 'get'"))
    ELSE Val(IF c.field.k = "absent" THEN Null ELSE c.field)

(***************************************************************************)
(* What a phase of main() does: it goes on to the next phase ("next"),     *)
(* returns from main ("return") or raises ("raise"); out are the lines it  *)
(* prints to standard output.                                              *)
(***************************************************************************)
Continue(out, b) ==
    [kind |-> "next", out |-> out, val |-> Unset, exc |-> NoExc, block |-> b]
Return(out, v, e) ==
    [kind |-> "return", out |-> out, val |-> v, exc |-> e, block |-> None]
Raise(e) ==
    [kind |-> "raise", out |-> <<>>, val |-> Unset, exc |-> e, block |-> None]

(***************************************************************************)
(* examples/config/filters/evm_filter_block_number.py                      *)
(***************************************************************************)
ExEvmRead(inp) ==
    IF inp.raw = "undecodable"
    THEN Raise(Exc("UnicodeDecodeError", "'utf-8' codec can't decode"))
    ELSE IF inp.raw = "empty"
    THEN Return(<<"No input JSON provided">>, PyBool(FALSE), NoExc)
    ELSE Continue(<<>>, None)

ExEvmParse(inp) ==
    LET data == JsonLoads(inp)
        mm == DataItem(inp, "monitor_match")
        args == DataItem(inp, "args")
        e == IF data.exc # NoExc THEN data.exc
             ELSE IF mm.exc # NoExc THEN mm.exc
             ELSE args.exc
    IN  IF e = NoExc THEN Continue(<<>>, None)
        ELSE IF IsInstance(e, "JSONDecodeError")
        THEN Return(<<"Invalid JSON input: " \o e.msg>>, PyBool(FALSE), e)
        ELSE Raise(e)

\* ExEvmExtract with int(hex_block) in place of int(hex_block, 16).
ExEvmExtract_Base10(inp) ==
    LET has == InMM(inp.mm, inp.mm.hasEVM)
        hex_block == NestedGet(inp.mm, inp.mm.evm, "transaction")
        n == IntOf(hex_block.v)
    IN  IF has.exc # NoExc THEN Raise(has.exc)
        ELSE IF ~has.v THEN Continue(<<>>, None)
        ELSE IF hex_block.exc # NoExc THEN Raise(hex_block.exc)
        ELSE IF ~Truthy(hex_block.v) THEN Continue(<<>>, None)
        ELSE IF n.exc # NoExc THEN Raise(n.exc)
        ELSE Continue(<<>>, Some(n.v))

ExEvmExtract(inp) ==
    LET has == InMM(inp.mm, inp.mm.hasEVM)
        hex_block == NestedGet(inp.mm, inp.mm.evm, "transaction")
        n == IntBase16(hex_block.v)
    IN  IF has.exc # NoExc THEN Raise(has.exc)
        ELSE IF ~has.v THEN Continue(<<>>, None)
        ELSE IF hex_block.exc # NoExc THEN Raise(hex_block.exc)
        ELSE IF ~Truthy(hex_block.v) THEN Continue(<<>>, None)
        ELSE IF n.exc # NoExc THEN Raise(n.exc)
        ELSE Continue(<<>>, Some(n.v))

ExEvmDecide(block_number) ==
    IF ~block_number.some
    THEN Return(<<"Block number is None">>, PyBool(FALSE), NoExc)
    ELSE LET res == block_number.n % 2 = 0
         IN  Return(<<"Block number " \o ToString(block_number.n) \o " is "
                        \o (IF res THEN "even" ELSE "odd")>>,
                    PyBool(res), NoExc)

ExEvmExcept(o) ==
    IF o.kind = "raise" /\ IsInstance(o.exc, "Exception")
    THEN Return(<<"Error processing input: " \o o.exc.msg>>, PyBool(FALSE), o.exc)
    ELSE o

ExEvmEmit(res) == <<Lower(PyStr(res))>>

(***************************************************************************)
(* tests/integration/fixtures/filters/evm_filter_block_number.py           *)
(* logging.info (line 37) is below the root logger's default level and    *)
(* writes nothing.                                                        *)
(***************************************************************************)
FxEvmRead(inp) ==
    IF inp.raw = "undecodable"
    THEN Raise(Exc("UnicodeDecodeError", "'utf-8' codec can't decode"))
    ELSE IF inp.raw = "empty"
    THEN Return(<<"No input JSON provided">>, PyBool(FALSE), NoExc)
    ELSE Continue(<<>>, None)

FxEvmParse(inp) ==
    LET data == JsonLoads(inp)
        mm == DataItem(inp, "monitor_match")
        args == DataItem(inp, "args")
        e == IF data.exc # NoExc THEN data.exc
             ELSE IF mm.exc # NoExc THEN mm.exc
             ELSE args.exc
    IN  IF e = NoExc THEN Continue(<<>>, None)
        ELSE IF IsInstance(e, "JSONDecodeError")
        THEN Return(<<"Invalid JSON input: " \o e.msg>>, PyBool(FALSE), e)
        ELSE Raise(e)

\* FxEvmExtract with block_number = 0 in place of block_number = None.
FxEvmExtract_DefaultZero(inp) ==
    LET has == InMM(inp.mm, inp.mm.hasEVM)
        hex_block == NestedGet(inp.mm, inp.mm.evm, "transaction")
        n == IntBase16(hex_block.v)
    IN  IF has.exc # NoExc THEN Raise(has.exc)
        ELSE IF ~has.v THEN Continue(<<>>, Some(0))
        ELSE IF hex_block.exc # NoExc THEN Raise(hex_block.exc)
        ELSE IF ~Truthy(hex_block.v) THEN Continue(<<>>, Some(0))
        ELSE IF n.exc # NoExc THEN Raise(n.exc)
        ELSE Continue(<<>>, Some(n.v))

FxEvmExtract(inp) ==
    LET has == InMM(inp.mm, inp.mm.hasEVM)
        hex_block == NestedGet(inp.mm, inp.mm.evm, "transaction")
        n == IntBase16(hex_block.v)
    IN  IF has.exc # NoExc THEN Raise(has.exc)
        ELSE IF ~has.v THEN Continue(<<>>, None)
        ELSE IF hex_block.exc # NoExc THEN Raise(hex_block.exc)
        ELSE IF ~Truthy(hex_block.v) THEN Continue(<<>>, None)
        ELSE IF n.exc # NoExc THEN Raise(n.exc)
        ELSE Continue(<<>>, Some(n.v))

FxEvmDecide(number) ==
    IF ~number.some
    THEN Return(<<"Block number is None">>, PyBool(FALSE), NoExc)
    ELSE LET res == number.n % 2 = 0
         IN  Return(<<"Block number " \o ToString(number.n) \o " is "
                        \o (IF res THEN "even" ELSE "odd")>>, PyBool(res), NoExc)

FxEvmExcept(o) ==
    IF o.kind = "raise" /\ IsInstance(o.exc, "Exception")
    THEN Return(<<"Error processing input: " \o o.exc.msg>>, PyBool(FALSE), o.exc)
    ELSE o

FxEvmEmit(res) == <<Lower(PyStr(res))>>

(***************************************************************************)
(* examples/config/filters/stellar_filter_block_number.py                  *)
(***************************************************************************)
ExStellarRead(inp) ==
    IF inp.raw = "undecodable"
    THEN Raise(Exc("UnicodeDecodeError", "'utf-8' codec can't decode"))
    ELSE IF inp.raw = "empty"
    THEN Return(<<"No input JSON provided">>, PyBool(FALSE), NoExc)
    ELSE Continue(<<>>, None)

\* ExStellarParse with the print of the JSONDecodeError handler left out.
ExStellarParse_Silent(inp) ==
    LET data == JsonLoads(inp)
        mm == DataItem(inp, "monitor_match")
        args == DataItem(inp, "args")
        e == IF data.exc # NoExc THEN data.exc
             ELSE IF mm.exc # NoExc THEN mm.exc
             ELSE args.exc
    IN  IF e = NoExc THEN Continue(<<>>, None)
        ELSE IF IsInstance(e, "JSONDecodeError")
        THEN Return(<<>>, PyBool(FALSE), e)
        ELSE Raise(e)

ExStellarParse(inp) ==
    LET data == JsonLoads(inp)
        mm == DataItem(inp, "monitor_match")
        args == DataItem(inp, "args")
        e == IF data.exc # NoExc THEN data.exc
             ELSE IF mm.exc # NoExc THEN mm.exc
             ELSE args.exc
    IN  IF e = NoExc THEN Continue(<<>>, None)
        ELSE IF IsInstance(e, "JSONDecodeError")
        THEN Return(<<"Invalid JSON input">>, PyBool(FALSE), e)
        ELSE Raise(e)

ExStellarExtract(inp) ==
    LET has == InMM(inp.mm, inp.mm.hasStellar)
        ledger == NestedGet(inp.mm, inp.mm.stellar, "ledger")
        n == IntOf(ledger.v)
    IN  IF has.exc # NoExc THEN Raise(has.exc)
        ELSE IF ~has.v THEN Continue(<<>>, None)
        ELSE IF ledger.exc # NoExc THEN Raise(ledger.exc)
        ELSE IF ~Truthy(ledger.v) THEN Continue(<<>>, None)
        ELSE IF n.exc # NoExc THEN Raise(n.exc)
        ELSE Continue(<<>>, Some(n.v))

ExStellarDecide(number) ==
    IF ~number.some
    THEN Return(<<>>, PyBool(FALSE), NoExc)
    ELSE LET res == number.n % 2 = 0
         IN  Return(<<>>, PyBool(res), NoExc)

\* ExStellarExcept with `except ValueError` in place of `except Exception`.
ExStellarExcept_ValueErrorOnly(o) ==
    IF o.kind = "raise" /\ IsInstance(o.exc, "ValueError")
    THEN Return(<<"Error processing input: " \o o.exc.msg>>, PyBool(FALSE), o.exc)
    ELSE o

ExStellarExcept(o) ==
    IF o.kind = "raise" /\ IsInstance(o.exc, "Exception")
    THEN Return(<<"Error processing input: " \o o.exc.msg>>, PyBool(FALSE), o.exc)
    ELSE o

ExStellarEmit(res) == <<Lower(PyStr(res))>>

(***************************************************************************)
(* tests/integration/fixtures/filters/stellar_filter_block_number.py       *)
(***************************************************************************)
FxStellarRead(inp) ==
    IF inp.raw = "undecodable"
    THEN Raise(Exc("UnicodeDecodeError", "'utf-8' codec can't decode"))
    ELSE IF inp.raw = "empty"
    THEN Return(<<"No input JSON provided">>, PyBool(FALSE), NoExc)
    ELSE Continue(<<>>, None)

FxStellarParse(inp) ==
    LET data == JsonLoads(inp)
        mm == DataItem(inp, "monitor_match")
        args == DataItem(inp, "args")
        e == IF data.exc # NoExc THEN data.exc
             ELSE IF mm.exc # NoExc THEN mm.exc
             ELSE args.exc
    IN  IF e = NoExc THEN Continue(<<>>, None)
        ELSE IF IsInstance(e, "JSONDecodeError")
        THEN Return(<<"Invalid JSON input">>, PyBool(FALSE), e)
        ELSE Raise(e)

\* FxStellarExtract with `if ledger is not None` in place of `if ledger`.
FxStellarExtract_IsNotNone(inp) ==
    LET has == InMM(inp.mm, inp.mm.hasStellar)
        ledger == NestedGet(inp.mm, inp.mm.stellar, "ledger")
        n == IntOf(ledger.v)
    IN  IF has.exc # NoExc THEN Raise(has.exc)
        ELSE IF ~has.v THEN Continue(<<>>, None)
        ELSE IF ledger.exc # NoExc THEN Raise(ledger.exc)
        ELSE IF ledger.v.k = "null" THEN Continue(<<>>, None)
        ELSE IF n.exc # NoExc THEN Raise(n.exc)
        ELSE Continue(<<>>, Some(n.v))

FxStellarExtract(inp) ==
    LET has == InMM(inp.mm, inp.mm.hasStellar)
        ledger == NestedGet(inp.mm, inp.mm.stellar, "ledger")
        n == IntOf(ledger.v)
    IN  IF has.exc # NoExc THEN Raise(has.exc)
        ELSE IF ~has.v THEN Continue(<<>>, None)
        ELSE IF ledger.exc # NoExc THEN Raise(ledger.exc)
        ELSE IF ~Truthy(ledger.v) THEN Continue(<<>>, None)
        ELSE IF n.exc # NoExc THEN Raise(n.exc)
        ELSE Continue(<<>>, Some(n.v))

FxStellarDecide(number) ==
    IF ~number.some
    THEN Return(<<"Ledger number is None">>, PyBool(FALSE), NoExc)
    ELSE LET res == number.n % 2 = 0
         IN  Return(<<"Ledger number " \o ToString(number.n) \o " is "
                        \o (IF res THEN "even" ELSE "odd")>>, PyBool(res), NoExc)

\* FxStellarExcept with `except KeyError` in place of `except Exception`.
FxStellarExcept_KeyErrorOnly(o) ==
    IF o.kind = "raise" /\ IsInstance(o.exc, "KeyError")
    THEN Return(<<"Error processing input: " \o o.exc.msg>>, PyBool(FALSE), o.exc)
    ELSE o

FxStellarExcept(o) ==
    IF o.kind = "raise" /\ IsInstance(o.exc, "Exception")
    THEN Return(<<"Error processing input: " \o o.exc.msg>>, PyBool(FALSE), o.exc)
    ELSE o

FxStellarEmit(res) == <<Lower(PyStr(res))>>

(***************************************************************************)
(* tests/integration/fixtures/filters/evm_filter_by_arguments.py           *)
(***************************************************************************)
FxArgsRead(inp) ==
    IF inp.raw = "undecodable"
    THEN Raise(Exc("UnicodeDecodeError", "'utf-8' codec can't decode"))
    ELSE IF inp.raw = "empty"
    THEN Return(<<"No input JSON provided">>, PyBool(FALSE), NoExc)
    ELSE Continue(<<>>, None)

FxArgsParse(inp) ==
    LET data == JsonLoads(inp)
        args == DataItem(inp, "args")
        e == IF data.exc # NoExc THEN data.exc ELSE args.exc
    IN  IF e = NoExc THEN Continue(<<>>, None)
        ELSE IF IsInstance(e, "JSONDecodeError")
        THEN Return(<<"Invalid JSON input: " \o e.msg>>, PyBool(FALSE), e)
        ELSE Raise(e)

\* FxArgsDecide with args[0] == '--verbose' in place of '--verbose' in args.
FxArgsDecide_FirstArg(inp) ==
    LET res == IF inp.args.k # "array"
               THEN Raises(Exc("TypeError", "'NoneType' object is not subscriptable"))
               ELSE IF Len(inp.args.items) = 0
               THEN Raises(Exc("IndexError", "list index out of range"))
               ELSE Val(inp.args.items[1] = "--verbose")
    IN  IF res.exc # NoExc THEN Raise(res.exc)
        ELSE Return(<<"Verbose mode is "
                        \o (IF res.v THEN "enabled" ELSE "disabled")>>,
                    PyBool(res.v), NoExc)

FxArgsDecide(inp) ==
    LET res == In("--verbose", inp.args)
    IN  IF res.exc # NoExc THEN Raise(res.exc)
        ELSE Return(<<"Verbose mode is "
                        \o (IF res.v THEN "enabled" ELSE "disabled")>>,
                    PyBool(res.v), NoExc)

FxArgsExcept(o) ==
    IF o.kind = "raise" /\ IsInstance(o.exc, "Exception")
    THEN Return(<<"Error processing input: " \o o.exc.msg>>, PyBool(FALSE), o.exc)
    ELSE o

FxArgsEmit(res) == <<Lower(PyStr(res))>>

(***************************************************************************)
(* examples/config/triggers/scripts/custom_notification.py                 *)
(* Every print goes to standard output; main has no return statement and   *)
(* the script calls no exit.                                               *)
(***************************************************************************)
TriggerRead(inp) ==
    IF inp.raw = "undecodable"
    THEN Raise(Exc("UnicodeDecodeError", "'utf-8' codec can't decode"))
    ELSE IF inp.raw = "empty"
    THEN Continue(<<"No input JSON provided">>, None)
    ELSE Continue(<<>>, None)

TriggerParse(inp) ==
    LET data == JsonLoads(inp)
        mm == DataItem(inp, "monitor_match")
        args == DataItem(inp, "args")
        e == IF data.exc # NoExc THEN data.exc
             ELSE IF mm.exc # NoExc THEN mm.exc
             ELSE args.exc
    IN  IF e = NoExc
        THEN IF inp.args.k = "array" /\ Len(inp.args.items) > 0
             THEN Return(<<"Args: " \o Repr(inp.args)>>, PyNone, NoExc)
             ELSE Return(<<>>, PyNone, NoExc)
        ELSE IF IsInstance(e, "JSONDecodeError")
        THEN Return(<<"Invalid JSON input: " \o e.msg>>, PyNone, e)
        ELSE Raise(e)

TriggerExcept(o) ==
    IF o.kind = "raise" /\ IsInstance(o.exc, "Exception")
    THEN Return(<<"Error processing input: " \o o.exc.msg>>, PyNone, o.exc)
    ELSE o

(***************************************************************************)
(* The script the process runs.                                            *)
(***************************************************************************)
ReadOf(s, inp) ==
    CASE s = "ex_evm" -> ExEvmRead(inp)
      [] s = "fx_evm" -> FxEvmRead(inp)
      [] s = "ex_stellar" -> ExStellarRead(inp)
      [] s = "fx_stellar" -> FxStellarRead(inp)
      [] s = "fx_args" -> FxArgsRead(inp)
      [] s = "trigger" -> TriggerRead(inp)

ParseOf(s, inp) ==
    CASE s = "ex_evm" -> ExEvmParse(inp)
      [] s = "fx_evm" -> FxEvmParse(inp)
      [] s = "ex_stellar" -> ExStellarParse(inp)
      [] s = "fx_stellar" -> FxStellarParse(inp)
      [] s = "fx_args" -> FxArgsParse(inp)
      [] s = "trigger" -> TriggerParse(inp)

ExtractOf(s, inp) ==
    CASE s = "ex_evm" -> ExEvmExtract(inp)
      [] s = "fx_evm" -> FxEvmExtract(inp)
      [] s = "ex_stellar" -> ExStellarExtract(inp)
      [] s = "fx_stellar" -> FxStellarExtract(inp)

DecideOf(s, inp, b) ==
    CASE s = "ex_evm" -> ExEvmDecide(b)
      [] s = "fx_evm" -> FxEvmDecide(b)
      [] s = "ex_stellar" -> ExStellarDecide(b)
      [] s = "fx_stellar" -> FxStellarDecide(b)
      [] s = "fx_args" -> FxArgsDecide(inp)

ExceptOf(s, o) ==
    CASE s = "ex_evm" -> ExEvmExcept(o)
      [] s = "fx_evm" -> FxEvmExcept(o)
      [] s = "ex_stellar" -> ExStellarExcept(o)
      [] s = "fx_stellar" -> FxStellarExcept(o)
      [] s = "fx_args" -> FxArgsExcept(o)
      [] s = "trigger" -> TriggerExcept(o)

EmitOf(s, res) ==
    CASE s = "ex_evm" -> ExEvmEmit(res)
      [] s = "fx_evm" -> FxEvmEmit(res)
      [] s = "ex_stellar" -> ExStellarEmit(res)
      [] s = "fx_stellar" -> FxStellarEmit(res)
      [] s = "fx_args" -> FxArgsEmit(res)

\* The phase after parsing: the by-arguments filter extracts nothing.
AfterParse(s) == IF s = "fx_args" THEN "Deciding" ELSE "Extracting"
\* Where control goes when main returns: the filters print the verdict, the
\* trigger script ends.
AfterMain(s) == IF s = "trigger" THEN "Exiting" ELSE "Emitting"

\* main() as a whole: what it returns, or the exception that escapes it.
MainOf(s, inp) ==
    LET r == ExceptOf(s, ReadOf(s, inp))
        p == ExceptOf(s, ParseOf(s, inp))
        x == IF s = "fx_args" THEN Continue(<<>>, None)
             ELSE ExceptOf(s, ExtractOf(s, inp))
        d == ExceptOf(s, DecideOf(s, inp, x.block))
    IN  IF r.kind # "next" THEN r
        ELSE IF p.kind # "next" THEN p
        ELSE IF x.kind # "next" THEN x
        ELSE d

(***************************************************************************)
(* The process.                                                            *)
(***************************************************************************)
Init ==
    /\ script \in Scripts
    /\ input \in InputsOf(script)
    /\ pc = "AwaitingInput"
    /\ stdout = <<>>
    /\ stderr = <<>>
    /\ result = Unset
    /\ block = None
    /\ raised = NoExc
    /\ parsed = FALSE
    /\ exitStatus = -1

\* The effect of one phase of main.  An exception that escapes main ends the
\* process: the interpreter prints the traceback to standard error and exits
\* with status 1, and the lines after the call of main never run.
Step(o, nextpc) ==
    /\ stdout' = stdout \o o.out
    /\ raised' = IF o.exc # NoExc THEN o.exc ELSE raised
    /\ block' = IF o.kind = "next" THEN o.block ELSE block
    /\ result' = IF o.kind = "return" THEN o.val ELSE result
    /\ pc' = CASE o.kind = "next" -> nextpc
               [] o.kind = "return" -> AfterMain(script)
               [] o.kind = "raise" -> "Done"
    /\ stderr' = IF o.kind = "raise"
                 THEN stderr \o <<"Traceback (most recent call last):",
                                  o.exc.cls \o ": " \o o.exc.msg>>
                 ELSE stderr
    /\ exitStatus' = IF o.kind = "raise" THEN 1 ELSE exitStatus
    /\ UNCHANGED <<script, input>>

Read ==
    /\ pc = "AwaitingInput"
    /\ Step(ExceptOf(script, ReadOf(script, input)), "Parsing")
    /\ UNCHANGED parsed

Parse ==
    /\ pc = "Parsing"
    /\ parsed' = TRUE
    /\ Step(ExceptOf(script, ParseOf(script, input)), AfterParse(script))

Extract ==
    /\ pc = "Extracting"
    /\ Step(ExceptOf(script, ExtractOf(script, input)), "Deciding")
    /\ UNCHANGED parsed

Decide ==
    /\ pc = "Deciding"
    /\ Step(ExceptOf(script, DecideOf(script, input, block)), "Emitting")
    /\ UNCHANGED parsed

Emit ==
    /\ pc = "Emitting"
    /\ stdout' = stdout \o EmitOf(script, result)
    /\ exitStatus' = 0
    /\ pc' = "Done"
    /\ UNCHANGED <<script, input, stderr, result, block, raised, parsed>>

Exit ==
    /\ pc = "Exiting"
    /\ exitStatus' = 0
    /\ pc' = "Done"
    /\ UNCHANGED <<script, input, stdout, stderr, result, block, raised, parsed>>

Next == Read \/ Parse \/ Extract \/ Decide \/ Emit \/ Exit

Spec == Init /\ [][Next]_vars

\* A started process runs to its end: nothing in a script waits for anything
\* but the read of standard input, which the caller closes.
FairSpec == Spec /\ WF_vars(Next)

(***************************************************************************)
(* Vocabulary of the properties.                                           *)
(***************************************************************************)
Done == pc = "Done"
IsVerdict(line) == line \in {"true", "false"}
VerdictLines == {i \in 1..Len(stdout) : IsVerdict(stdout[i])}
LastLine == IF Len(stdout) = 0 THEN "" ELSE stdout[Len(stdout)]
\* The process ended normally and its last line of standard output is v.
VerdictIs(v) == Done /\ exitStatus = 0 /\ LastLine = v
\* Lines written for the operator: all of standard output but the verdict,
\* and standard error.
Diagnostics ==
    Cardinality({i \in 1..Len(stdout) : ~IsVerdict(stdout[i])}) + Len(stderr)

\* The run left the normal path: the input was empty or an exception was raised.
FailurePath == input.raw = "empty" \/ raised # NoExc

IsEnvelope(inp) == inp.raw = "json" /\ inp.top = "object"
\* monitor_match holds the family key, and under it a record with the field.
RecordOf(inp, family) ==
    IF family = "EVM" THEN inp.mm.evm ELSE inp.mm.stellar
HasFamily(inp, family) ==
    /\ inp.hasMM
    /\ inp.mm.kind = "object"
    /\ IF family = "EVM" THEN inp.mm.hasEVM ELSE inp.mm.hasStellar
    /\ RecordOf(inp, family).kind = "object"
WellFormed(inp, family) ==
    /\ IsEnvelope(inp)
    /\ inp.hasArgs
    /\ HasFamily(inp, family)
    /\ RecordOf(inp, family).hasRec
    /\ RecordOf(inp, family).recKind = "object"
FamilyOf(s) == IF s \in EvmFilters THEN "EVM" ELSE "Stellar"

\* Numerals, written out: digit strings and the number each denotes.
HexDigits == {"0", "1", "a"}
DecDigits == {"0", "1"}
DigitStrs(digits) == UNION {[1..k -> digits] : k \in 1..MaxStrLen}
RECURSIVE Denotes(_, _, _)
Denotes(ds, base, acc) ==
    IF Len(ds) = 0 THEN acc
    ELSE Denotes(Tail(ds), base,
                 acc * base + (CASE Head(ds) = "0" -> 0
                                 [] Head(ds) = "1" -> 1
                                 [] Head(ds) = "a" -> 10))
\* Every string int(s, 16) / int(s) accepts, over the characters of the model.
HexLiterals ==
    {sg \o pf \o ds : sg \in {<<>>, <<"-">>}, pf \in {<<>>, <<"0", "x">>},
                      ds \in DigitStrs(HexDigits)}
DecLiterals == {sg \o ds : sg \in {<<>>, <<"-">>}, ds \in DigitStrs(DecDigits)}

LastArgs == Args("array", <<"-v", "--verbose">>)

\* What a finished run of a filter script must look like.
Emitted ==
    /\ VerdictIs("true") \/ VerdictIs("false")
    /\ VerdictLines = {Len(stdout)}
    /\ FailurePath => LastLine = "false"

NoFamilyKey(inp) ==
    IsEnvelope(inp) /\ inp.hasMM /\ ~inp.mm.hasEVM /\ ~inp.mm.hasStellar

\* int(x, 16) takes hexadecimal strings only; int(x) takes decimal strings
\* and numbers.
Undecodable(s, l) ==
    IF s \in EvmFilters
    THEN l.k # "absent" /\ (l.k = "str" => l.s \notin HexLiterals)
    ELSE /\ l.k \in {"null", "nan", "array", "str"}
         /\ l.k = "str" => l.s \notin DecLiterals
\* A key of the chain family is missing, or its numeric field does not decode.
BadFamily(s, inp) ==
    /\ HasFamily(inp, FamilyOf(s))
    /\ LET r == RecordOf(inp, FamilyOf(s))
       IN  \/ ~r.hasRec
           \/ r.recKind = "object" /\ r.field.k = "absent"
           \/ r.recKind = "object" /\ Undecodable(s, r.field)
NoFault == VerdictIs("false") /\ stderr = <<>> /\ VerdictLines = {Len(stdout)}

Peer(s) ==
    CASE s = "ex_evm" -> "fx_evm" [] s = "fx_evm" -> "ex_evm"
      [] s = "ex_stellar" -> "fx_stellar" [] s = "fx_stellar" -> "ex_stellar"

(***************************************************************************)
(* C1.  Every run of a filter script, on every content of standard input,  *)
(* eventually ends having written exactly one verdict line, "true" or      *)
(* "false", as the last line of standard output; on a failure path the     *)
(* verdict is "false".                                                     *)
(***************************************************************************)
C1_VerdictAlwaysEmitted == (script \in FilterScripts) ~> Emitted
C1_Witness ==
    /\ script \in FilterScripts
    /\ raised.cls = "KeyError"
    /\ Emitted

(***************************************************************************)
(* C2.  EVM block-number filter: for a well-formed envelope whose          *)
(* blockNumber is a hexadecimal string with a 0x prefix, the verdict is    *)
(* "true" iff the number it denotes is even.                               *)
(***************************************************************************)
C2_EvmParity ==
    \A ds \in DigitStrs(HexDigits) :
        /\ Done
        /\ script \in EvmFilters
        /\ WellFormed(input, "EVM")
        /\ input.mm.evm.field = StrLeaf(<<"0", "x">> \o ds)
        => IF Denotes(ds, 16, 0) % 2 = 0
           THEN VerdictIs("true") ELSE VerdictIs("false")
C2_Witness ==
    /\ script \in EvmFilters
    /\ WellFormed(input, "EVM")
    /\ input.mm.evm.field = StrLeaf(<<"0", "x", "1", "a">>)
    /\ VerdictIs("true")

(***************************************************************************)
(* C3.  Stellar block-number filter: for a well-formed envelope whose      *)
(* sequence is a non-negative integer, given as a JSON integer or as a     *)
(* decimal string, the verdict is "true" iff the integer is even.          *)
(***************************************************************************)
C3_StellarParity ==
    /\ \A n \in 0..MaxInt :
        /\ Done
        /\ script \in StellarFilters
        /\ WellFormed(input, "Stellar")
        /\ input.mm.stellar.field = IntLeaf(n)
        => IF n % 2 = 0 THEN VerdictIs("true") ELSE VerdictIs("false")
    /\ \A ds \in DigitStrs(DecDigits) :
        /\ Done
        /\ script \in StellarFilters
        /\ WellFormed(input, "Stellar")
        /\ input.mm.stellar.field = StrLeaf(ds)
        => IF Denotes(ds, 10, 0) % 2 = 0
           THEN VerdictIs("true") ELSE VerdictIs("false")

(***************************************************************************)
(* C4.  As claimed: for an envelope whose monitor_match holds neither the  *)
(* EVM nor the Stellar key, the verdict of every filter script is "false". *)
(***************************************************************************)
C4_NoFamilyKeyAnyFilter ==
    Done /\ script \in FilterScripts /\ NoFamilyKey(input) => VerdictIs("false")
(***************************************************************************)
(* C4, amended.  For an envelope whose monitor_match holds neither the EVM *)
(* nor the Stellar key, the verdict of every block-number filter script    *)
(* (EVM or Stellar) is "false", whatever the other fields and args hold.   *)
(***************************************************************************)
C4_NoFamilyKeyBlockFilter ==
    Done /\ script \in BlockFilters /\ NoFamilyKey(input) => VerdictIs("false")
C4_Witness ==
    /\ script \in BlockFilters
    /\ NoFamilyKey(input)
    /\ input.hasArgs /\ input.args = LastArgs
    /\ VerdictIs("false")

(***************************************************************************)
(* C5.  Every filter script, given empty or unparseable standard input,    *)
(* gives the verdict "false" and writes at least one diagnostic line to    *)
(* standard output before the verdict line.                                *)
(***************************************************************************)
C5_UnparseableIsFalse ==
    /\ Done
    /\ script \in FilterScripts
    /\ input.raw \in {"empty", "undecodable", "malformed"}
    => /\ VerdictIs("false")
       /\ Len(stdout) >= 2
       /\ VerdictLines = {Len(stdout)}
C5_Witness ==
    /\ script = "ex_stellar"
    /\ input.raw = "malformed"
    /\ VerdictIs("false")
    /\ stdout = <<"Invalid JSON input", "false">>

(***************************************************************************)
(* C6.  By-arguments filter: for a parseable envelope whose args is a list *)
(* of strings, the verdict is "true" iff "--verbose" is an element of      *)
(* args, whatever monitor_match is; ["--verbose"] gives "true" and []      *)
(* gives "false".                                                          *)
(***************************************************************************)
C6_Membership ==
    /\ Done
    /\ script = "fx_args"
    /\ IsEnvelope(input)
    /\ input.hasArgs
    /\ input.args.k = "array"
    => /\ "--verbose" \in {input.args.items[i] : i \in 1..Len(input.args.items)}
            => VerdictIs("true")
       /\ "--verbose" \notin {input.args.items[i] : i \in 1..Len(input.args.items)}
            => VerdictIs("false")
       /\ input.args.items = <<"--verbose">> => VerdictIs("true")
       /\ input.args.items = <<>> => VerdictIs("false")
C6_Witness ==
    /\ script = "fx_args"
    /\ IsEnvelope(input)
    /\ ~input.hasMM
    /\ input.hasArgs /\ input.args = LastArgs
    /\ VerdictIs("true")

(***************************************************************************)
(* C7.  As claimed: in the trigger script every error ends the run with    *)
(* diagnostic text on standard error, a non-zero exit status, and no       *)
(* verdict line.                                                           *)
(***************************************************************************)
C7_TriggerFails ==
    Done /\ script = "trigger" /\ FailurePath
    => Len(stderr) > 0 /\ exitStatus # 0 /\ VerdictLines = {}

(***************************************************************************)
(* C8.  As claimed: in every script, empty input goes straight to failure: *)
(* JSON parsing is never attempted and exactly one diagnostic is produced. *)
(***************************************************************************)
C8_EmptySkipsParse ==
    input.raw = "empty" => ~parsed /\ (Done => Diagnostics = 1)

(***************************************************************************)
(* C9.  As claimed: in every filter script a parseable envelope with a     *)
(* missing key (monitor_match, args, the nested record, the nested field)  *)
(* or an undecodable numeric field ends with no fault escaping main, the   *)
(* verdict "false" and exit status 0.                                      *)
(***************************************************************************)
C9_MissingKeyAnyFilter ==
    /\ Done
    /\ script \in FilterScripts
    /\ IsEnvelope(input)
    /\ \/ ~input.hasMM
       \/ ~input.hasArgs
       \/ script \in BlockFilters /\ input.hasArgs /\ BadFamily(script, input)
    => NoFault
(***************************************************************************)
(* C9, amended.  In every filter script a parseable envelope that lacks a  *)
(* key the script reads (args in every filter; in the block-number filters *)
(* also monitor_match, the nested transaction or ledger record and the     *)
(* nested blockNumber or sequence field), or whose present numeric field   *)
(* cannot be decoded, ends with no fault escaping main, the verdict        *)
(* "false" and exit status 0.  The by-arguments filter does not read       *)
(* monitor_match.                                                          *)
(***************************************************************************)
C9_MissingReadKey ==
    /\ Done
    /\ script \in FilterScripts
    /\ IsEnvelope(input)
    /\ \/ script \in BlockFilters /\ ~input.hasMM
       \/ ~input.hasArgs
       \/ script \in BlockFilters /\ input.hasArgs /\ BadFamily(script, input)
    => NoFault
C9_Witness ==
    /\ script = "fx_stellar"
    /\ WellFormed(input, "Stellar")
    /\ input.mm.stellar.field = StrLeaf(<<"a">>)
    /\ raised.cls = "ValueError"
    /\ NoFault

(***************************************************************************)
(* C10.  On every input the example filter and the test fixture of the     *)
(* same name end with the same verdict line.                               *)
(***************************************************************************)
C10_SameVerdict ==
    Done /\ script \in BlockFilters
    => LET peer == MainOf(Peer(script), input)
       IN  /\ peer.kind = "return"
           /\ exitStatus = 0
           /\ <<LastLine>> = EmitOf(Peer(script), peer.val)
C10_Witness ==
    /\ script = "ex_stellar"
    /\ WellFormed(input, "Stellar")
    /\ input.mm.stellar.field = IntLeaf(2)
    /\ VerdictIs("true")
    /\ MainOf("fx_stellar", input).out = <<"Ledger number 2 is even">>
    /\ stdout = <<"true">>

====
